---- MODULE Spec2Model ----
(***************************************************************************)
(* A model of express_rs (src/src/lib.rs): route registration, the accept  *)
(* loop of Application::listen, Request::new and execute_route.            *)
(*                                                                         *)
(* Text is a sequence of one-character strings, a byte sequence likewise   *)
(* (every byte used is ASCII except the byte named "xFF").  An             *)
(* Option<T> is a sequence of length 0 (None) or 1 (Some).  A HashMap is   *)
(* a function whose domain is its key set.                                 *)
(***************************************************************************)
EXTENDS Integers, Sequences, FiniteSets, TLC

VARIABLES
    static_methods,   \* Application.static_methods: (Method, path) -> handler
    dynamic_methods,  \* Application.dynamic_methods: Vec<(Method, segments, handler)>
    registered,       \* history: the add_new_route calls made so far, in order
    pc,               \* where the process is: "setup", "listening", "parsed", "answered",
                      \* "panicked"
    stream,           \* the accepted connection: bytes still unread, and how they arrive
    request,          \* Option<Request>: the Request built by Request::new
    calls,            \* history: handler invocations made for the current connection
    written,          \* history: write_all calls made on the current connection
    conn,             \* history: the connection as it was accepted
    scanned,          \* history: the segments the dynamic scan ran on, if it ran
    panic,            \* Option<message>: the panic that ended the process
    resp,             \* Option<Response>: the Response a handler is building
    built,            \* history: the builder calls made on that Response, in order
    frame             \* Option: read_header at work: its buffer, the sizes of the reads
                      \* made (history), and its result once it returned

vars == <<static_methods, dynamic_methods, registered, pc, stream, request, calls,
          written, conn, scanned, panic, resp, built, frame>>

None == <<>>
Some(v) == <<v>>

(***************************************************************************)
(* Bounds of the model.                                                    *)
(***************************************************************************)
MaxRoutes == 3

(***************************************************************************)
(* Text primitives of the Rust standard library, as the code uses them.    *)
(***************************************************************************)

\* str::contains(c)
Contains(s, c) == \E i \in 1..Len(s) : s[i] = c

\* str::find(c): the first index holding c, 0 when there is none
RECURSIVE FindFrom(_, _, _)
FindFrom(s, c, i) ==
    IF i > Len(s) THEN 0
    ELSE IF s[i] = c THEN i
    ELSE FindFrom(s, c, i + 1)

Find(s, c) == FindFrom(s, c, 1)

\* str::split_once(c): None, or Some((before the first c, after it))
SplitOnce(s, c) ==
    LET i == Find(s, c)
    IN  IF i = 0 THEN None
        ELSE Some(<<SubSeq(s, 1, i - 1), SubSeq(s, i + 1, Len(s))>>)

\* str::split(c): the pieces between occurrences of c (at least one piece)
RECURSIVE Split(_, _)
Split(s, c) ==
    LET i == Find(s, c)
    IN  IF i = 0 THEN <<s>>
        ELSE <<SubSeq(s, 1, i - 1)>> \o Split(SubSeq(s, i + 1, Len(s)), c)

\* .filter(|s| !s.is_empty())
RECURSIVE NonEmpty(_)
NonEmpty(pieces) ==
    IF pieces = <<>> THEN <<>>
    ELSE IF Head(pieces) = <<>> THEN NonEmpty(Tail(pieces))
    ELSE <<Head(pieces)>> \o NonEmpty(Tail(pieces))

\* str::starts_with(c)
StartsWith(s, c) == Len(s) >= 1 /\ s[1] = c

Whitespace == {" ", "\t", "\r", "\n"}

RECURSIVE TrimStart(_)
TrimStart(s) ==
    IF s # <<>> /\ Head(s) \in Whitespace THEN TrimStart(Tail(s)) ELSE s

RECURSIVE TrimEnd(_)
TrimEnd(s) ==
    IF s # <<>> /\ s[Len(s)] \in Whitespace THEN TrimEnd(SubSeq(s, 1, Len(s) - 1)) ELSE s

\* str::trim
Trim(s) == TrimStart(TrimEnd(s))

\* HashMap::insert: a later insert of the same key replaces the value
Insert(map, k, v) == (k :> v) @@ map

EmptyMap == <<>>

(***************************************************************************)
(* Response (lib.rs 212-293).                                              *)
(***************************************************************************)

I32Max == 2147483647

\* a usize cast with as i32 (lengths below 2^32): values above i32::MAX wrap
AsI32(n) == IF n <= I32Max THEN n ELSE ((n - I32Max) - I32Max) - 2

Digit(d) == <<"0", "1", "2", "3", "4", "5", "6", "7", "8", "9">>[d + 1]

\* Display of a non-negative integer
RECURSIVE Decimal(_)
Decimal(n) == IF n < 10 THEN <<Digit(n)>> ELSE Decimal(n \div 10) \o <<Digit(n % 10)>>

\* Display of an i32, as format!("{}") prints it
Display(n) == IF n < 0 THEN <<"-">> \o Decimal(0 - n) ELSE Decimal(n)

Text_html == <<"t", "e", "x", "t", "/", "h", "t", "m", "l">>
Application_json ==
    <<"a", "p", "p", "l", "i", "c", "a", "t", "i", "o", "n", "/", "j", "s", "o", "n">>

\* Response::new
Response_new ==
    [status |-> 200, content_type |-> None, content_length |-> None, body |-> <<>>]

\* a status that starts the body over
statusClearingBody(self, code) == [self EXCEPT !.status = code, !.body = <<>>]

\* Response::status
status(self, code) == [self EXCEPT !.status = code]

\* Response::html
html(self, text) ==
    [self EXCEPT !.content_type = Some(Text_html),
                 !.content_length = Some(AsI32(Len(text))),
                 !.body = text]

\* Response::json
json(self, text) ==
    [self EXCEPT !.content_type = Some(Application_json),
                 !.content_length = Some(AsI32(Len(text))),
                 !.body = text]

CRLF == <<"\r", "\n">>
StatusLinePrefix == <<"H", "T", "T", "P", "/", "1", ".", "1", " ">>
Content_Length ==
    <<"C", "o", "n", "t", "e", "n", "t", "-", "L", "e", "n", "g", "t", "h">>
Content_Type ==
    <<"C", "o", "n", "t", "e", "n", "t", "-", "T", "y", "p", "e">>
ContentLengthPrefix == Content_Length \o <<":", " ">>
ContentTypePrefix == Content_Type \o <<":", " ">>

\* send with the two header lines in the other order
sendTypeFirst(self) ==
    LET status_line == StatusLinePrefix \o Display(self.status)
    IN  IF self.content_length # None /\ self.content_type # None
        THEN status_line \o CRLF
                 \o ContentTypePrefix \o self.content_type[1] \o CRLF
                 \o ContentLengthPrefix \o Display(self.content_length[1]) \o CRLF \o CRLF
                 \o self.body
        ELSE status_line \o CRLF \o CRLF

\* Response::send: the bytes handed to the one write_all call
send(self) ==
    LET status_line == StatusLinePrefix \o Display(self.status)
    IN  IF self.content_length # None /\ self.content_type # None
        THEN status_line \o CRLF
                 \o ContentLengthPrefix \o Display(self.content_length[1]) \o CRLF
                 \o ContentTypePrefix \o self.content_type[1] \o CRLF \o CRLF
                 \o self.body
        ELSE status_line \o CRLF \o CRLF

(***************************************************************************)
(* Request accessors (lib.rs 142-169).                                     *)
(***************************************************************************)

\* Request::get_param
get_param(self, key) ==
    IF self.params = None THEN None
    ELSE IF key \in DOMAIN self.params[1] THEN Some(self.params[1][key])
    ELSE None

\* Request::get_search_param
get_search_param(self, key) ==
    IF self.search_params = None THEN None
    ELSE IF key \in DOMAIN self.search_params[1] THEN Some(self.search_params[1][key])
    ELSE None

(***************************************************************************)
(* Handlers.  A handler is a closure of the application author; the model  *)
(* identifies the closure passed to the n-th registration by n and gives   *)
(* every closure the body of the documentation's example (lib.rs 136-139): *)
(* it answers status(200).json(<id>) when the path parameter "id" is       *)
(* bound, and returns the response it was given otherwise (main.rs 166).   *)
(***************************************************************************)
IdKey == <<"i", "d">>

Handler(function, req, response) ==
    LET id == get_param(req, IdKey)
    IN  IF id = None THEN response ELSE json(status(response, 200), id[1])

(***************************************************************************)
(* Registration (lib.rs 309-340, 428-447).                                 *)
(***************************************************************************)
Static(s) == [kind |-> "Static", s |-> s]
Dynamic(s) == [kind |-> "Dynamic", s |-> s]

\* the segments in which every part that holds a ':' is Dynamic
RECURSIVE SegmentsColonAnywhere(_)
SegmentsColonAnywhere(parts) ==
    IF parts = <<>> THEN <<>>
    ELSE LET item == Head(parts)
         IN  <<IF StartsWith(item, ":") THEN Dynamic(Tail(item))
               ELSE IF Contains(item, ":") THEN Dynamic(item)
               ELSE Static(item)>>
                 \o SegmentsColonAnywhere(Tail(parts))

\* lines 436-442: one RouteSegment per non-empty part
RECURSIVE Segments(_)
Segments(parts) ==
    IF parts = <<>> THEN <<>>
    ELSE LET item == Head(parts)
         IN  <<IF StartsWith(item, ":") THEN Dynamic(Tail(item)) ELSE Static(item)>>
                 \o Segments(Tail(parts))

\* HashMap::insert on static_methods (line 445)
StaticInsertKeepFirst(map, key, function) ==
    IF key \in DOMAIN map THEN map ELSE Insert(map, key, function)

StaticInsert(map, key, function) == Insert(map, key, function)

\* Application::add_new_route
add_new_route(path, method, function) ==
    /\ IF Contains(path, ":")
       THEN /\ dynamic_methods' = Append(dynamic_methods,
                    [method |-> method,
                     segments |-> Segments(NonEmpty(Split(Trim(path), "/"))),
                     function |-> function])
            /\ UNCHANGED static_methods
       ELSE /\ static_methods' = StaticInsert(static_methods, <<method, path>>, function)
            /\ UNCHANGED dynamic_methods
    /\ registered' = Append(registered,
                            [path |-> path, method |-> method, function |-> function])

(***************************************************************************)
(* Routing (lib.rs 371-426).                                               *)
(***************************************************************************)

\* lines 382-387: the query-parameter map of the text after '?'
RECURSIVE SearchParamsMap(_, _)
SearchParamsMap(pieces, map) ==
    IF pieces = <<>> THEN map
    ELSE LET kv == SplitOnce(Head(pieces), "=")
         IN  SearchParamsMap(Tail(pieces),
                             IF kv = None THEN map ELSE Insert(map, kv[1][1], kv[1][2]))

FilterRouteKeepsQuery(route) ==
    IF Contains(route, "?")
    THEN <<route, Some(SearchParamsMap(Split(SplitOnce(route, "?")[1][2], "&"), EmptyMap))>>
    ELSE <<route, None>>

\* lines 379-390: <<filtered_route, search_params>> of the request's route
FilterRoute(route) ==
    IF Contains(route, "?")
    THEN LET rq == SplitOnce(route, "?")[1]
         IN  <<rq[1], Some(SearchParamsMap(Split(rq[2], "&"), EmptyMap))>>
    ELSE <<route, None>>

\* lines 392-394: the key of the static lookup
StaticKeyStripped(req, filtered_route) == <<req.method, filtered_route>>

StaticKey(req, filtered_route) == <<req.method, req.route>>

\* line 404: the candidate is passed over
SkippedIfLonger(array, method, candidate) ==
    Len(array) > Len(candidate.segments) \/ method # candidate.method

Skipped(array, method, candidate) ==
    Len(array) # Len(candidate.segments) \/ method # candidate.method

\* lines 407-419: the loop over the request's segments.  The continue of
\* line 412 continues this loop: on a Static segment that differs the loop
\* goes on to the next index.
RECURSIVE ParamsLoop(_, _, _, _)
ParamsLoop(array, segments, index, params_map) ==
    IF index > Len(array) THEN params_map
    ELSE LET pattern == array[index]
             seg == segments[index]
         IN  IF seg.kind = "Static"
             THEN ParamsLoop(array, segments, index + 1, params_map)
             ELSE ParamsLoop(array, segments, index + 1,
                             Insert(params_map, seg.s, pattern))

ParamsMapKeepFirst(array, segments) ==
    LET dyn == {i \in 1..Len(array) : segments[i].kind = "Dynamic"}
        names == {segments[i].s : i \in dyn}
        first(n) == CHOOSE i \in dyn :
                        segments[i].s = n /\ \A j \in dyn : segments[j].s = n => i <= j
    IN  [n \in names |-> array[first(n)]]

ParamsMap(array, segments) == ParamsLoop(array, segments, 1, EmptyMap)

\* lines 403-423: the index of the first candidate not passed over, 0 if none
RECURSIVE Scan(_, _, _)
Scan(array, method, i) ==
    IF i > Len(dynamic_methods) THEN 0
    ELSE IF Skipped(array, method, dynamic_methods[i]) THEN Scan(array, method, i + 1)
    ELSE i

\* what one execute_route call did: the request as it leaves it, the handler
\* invocations, the writes to the stream, and the segments the scan of the
\* dynamic routes ran on (None when no scan ran)
Outcome(req, made, out, array) ==
    [request |-> req, calls |-> made, written |-> out, scanned |-> array]

\* the static arm handing the handler the query mapping as path parameters
StaticArmWithParams(req, filtered_route) ==
    LET key == StaticKey(req, filtered_route)
        req2 == [req EXCEPT !.params = req.search_params]
    IN  IF key \in DOMAIN static_methods
        THEN LET f == static_methods[key]
                 res == Handler(f, req2, Response_new)
             IN  Some(Outcome(req2,
                              <<[function |-> f, table |-> "static", index |-> 0,
                                 request |-> req2, response |-> res]>>,
                              <<send(res)>>, None))
        ELSE None

\* lines 392-397: the static arm, None when the lookup finds nothing
StaticArm(req, filtered_route) ==
    LET key == StaticKey(req, filtered_route)
    IN  IF key \in DOMAIN static_methods
        THEN LET f == static_methods[key]
                 res == Handler(f, req, Response_new)
             IN  Some(Outcome(req,
                              <<[function |-> f, table |-> "static", index |-> 0,
                                 request |-> req, response |-> res]>>,
                              <<send(res)>>, None))
        ELSE None

\* the scan without the return of line 422: every candidate not passed over
\* is invoked
RECURSIVE InvokeFrom(_, _, _, _, _, _)
InvokeFrom(req, array, method, response, i, out) ==
    IF i > Len(dynamic_methods) THEN out
    ELSE IF Skipped(array, method, dynamic_methods[i])
    THEN InvokeFrom(req, array, method, response, i + 1, out)
    ELSE LET cand == dynamic_methods[i]
             req2 == [req EXCEPT !.params = Some(ParamsMap(array, cand.segments))]
             res == Handler(cand.function, req2, response)
         IN  InvokeFrom(req, array, method, response, i + 1,
                 [out EXCEPT !.request = req2,
                             !.calls = Append(@, [function |-> cand.function,
                                                   table |-> "dynamic", index |-> i,
                                                   request |-> req2, response |-> res]),
                             !.written = Append(@, send(res))])

DynamicArmNoReturn(req, filtered_route, method, response) ==
    LET array == NonEmpty(Split(filtered_route, "/"))
    IN  InvokeFrom(req, array, method, response, 1,
                   [request |-> req, calls |-> <<>>, written |-> <<>>,
                    scanned |-> Some(array)])

\* lines 399-423: the dynamic arm
DynamicArm(req, filtered_route, method, response) ==
    LET array == NonEmpty(Split(filtered_route, "/"))
        i == Scan(array, method, 1)
    IN  IF i = 0 THEN Outcome(req, <<>>, <<>>, Some(array))
        ELSE LET cand == dynamic_methods[i]
                 req2 == [req EXCEPT !.params = Some(ParamsMap(array, cand.segments))]
                 res == Handler(cand.function, req2, response)
             IN  Outcome(req2,
                         <<[function |-> cand.function, table |-> "dynamic", index |-> i,
                            request |-> req2, response |-> res]>>,
                         <<send(res)>>, Some(array))

LookupDynamicFirst(req, filtered_route, method, response) ==
    LET d == DynamicArm(req, filtered_route, method, response)
        st == StaticArm(req, filtered_route)
    IN  IF d.calls # <<>> \/ st = None THEN d ELSE st[1]

\* lines 392-424: the static table first, the dynamic routes only on a miss
Lookup(req, filtered_route, method, response) ==
    LET st == StaticArm(req, filtered_route)
    IN  IF st # None THEN st[1] ELSE DynamicArm(req, filtered_route, method, response)

\* Application::execute_route
execute_route(route, method, req, response) ==
    LET fr == FilterRoute(route)
        filtered_route == fr[1]
        req1 == IF fr[2] = None THEN req ELSE [req EXCEPT !.search_params = fr[2]]
    IN  IF StartsWith(filtered_route, "/")
        THEN Lookup(req1, filtered_route, method, response)
        ELSE Outcome(req1, <<>>, <<>>, None)

(***************************************************************************)
(* Reading a request off the stream (lib.rs 52-129, 171-207).              *)
(*                                                                         *)
(* A stream is [bytes, chunk]: the bytes the peer sends before closing,    *)
(* and the most bytes one read call returns (how the bytes arrive).        *)
(* A panic is a result [ok |-> FALSE, panic |-> <message>].                *)
(***************************************************************************)
TempSize == 512

Min(a, b) == IF a < b THEN a ELSE b

Panic(msg) == [ok |-> FALSE, panic |-> msg]

\* String::from_utf8_lossy: the byte 0xFF, never valid in UTF-8, becomes U+FFFD
RECURSIVE Utf8Lossy(_)
Utf8Lossy(bytes) ==
    IF bytes = <<>> THEN <<>>
    ELSE <<IF Head(bytes) = "xFF" THEN "uFFFD" ELSE Head(bytes)>> \o Utf8Lossy(Tail(bytes))

\* buf.windows(4).position(|w| w == b"\r\n\r\n"), 1-based, 0 when absent
RECURSIVE TerminatorFrom(_, _)
TerminatorFrom(buf, i) ==
    IF i + 3 > Len(buf) THEN 0
    ELSE IF SubSeq(buf, i, i + 3) = CRLF \o CRLF THEN i
    ELSE TerminatorFrom(buf, i + 1)

RECURSIVE TrimAll(_)
TrimAll(lines) ==
    IF lines = <<>> THEN <<>> ELSE <<Trim(Head(lines))>> \o TrimAll(Tail(lines))

\* the search that looks at the bytes of the last read only
PositionInChunk(buf, n) ==
    LET pos == TerminatorFrom(SubSeq(buf, Len(buf) - n + 1, Len(buf)), 1)
    IN  IF pos = 0 THEN 0 ELSE Len(buf) - n + pos

\* line 190: the search runs on the whole buffer, whatever the last read
\* (of n bytes) added
Position(buf, n) == TerminatorFrom(buf, 1)

\* lines 184-203: one turn of the loop, for a read that returns the next n > 0
\* bytes; done with the result when the terminator is in the buffer
read_turn(buf, unread, n) ==
    LET buf1 == buf \o SubSeq(unread, 1, n)
        unread1 == SubSeq(unread, n + 1, Len(unread))
        pos == Position(buf1, n)
    IN  IF pos # 0
        THEN LET header_end == pos + 3
                 header_bytes == SubSeq(buf1, 1, header_end)
                 left_over == SubSeq(buf1, header_end + 1, Len(buf1))
                 header == Utf8Lossy(header_bytes)
             IN  [done |-> TRUE, buf |-> buf1,
                  result |-> [ok |-> TRUE,
                              vec |-> NonEmpty(TrimAll(Split(header, "\n"))),
                              left_over |-> left_over,
                              unread |-> unread1]]
        ELSE [done |-> FALSE, buf |-> buf1, unread |-> unread1]

\* read_header: the loop of lines 183-204 and the panic of line 206
RECURSIVE read_header_loop(_, _, _)
read_header_loop(buf, unread, chunk) ==
    LET n == Min(Min(chunk, TempSize), Len(unread))
    IN  IF n = 0 THEN Panic("Connection Stopped before finishing")
        ELSE LET t == read_turn(buf, unread, n)
             IN  IF t.done THEN t.result
                 ELSE read_header_loop(t.buf, t.unread, chunk)

read_header(s) == read_header_loop(<<>>, s.bytes, s.chunk)

Zeros(n) == [i \in 1..n |-> "x00"]

\* read_body.  The subtraction of line 173 panics when the leftover is longer
\* than the declared length (overflow check; without the check the wrapped
\* length makes vec! panic with a capacity overflow).  The result of
\* read_exact is dropped (line 174): at end of stream the buffer keeps the
\* bytes that did arrive, followed by the zeros it was created with.
read_body(unread, content_length, left_over) ==
    IF content_length < Len(left_over) THEN Panic("attempt to subtract with overflow")
    ELSE LET want == content_length - Len(left_over)
             got == Min(want, Len(unread))
             rest == SubSeq(unread, 1, got) \o Zeros(want - got)
         IN  [ok |-> TRUE, bytes |-> left_over \o rest,
              unread |-> SubSeq(unread, got + 1, Len(unread)),
              short |-> got < want]

\* str::split_ascii_whitespace
RECURSIVE SplitAsciiWhitespace(_)
SplitAsciiWhitespace(s) ==
    LET t == TrimStart(s)
    IN  IF t = <<>> THEN <<>>
        ELSE LET ends == {i \in 1..Len(t) : t[i] \in Whitespace}
                 stop == IF ends = {} THEN Len(t) + 1
                         ELSE CHOOSE i \in ends : \A j \in ends : i <= j
             IN  <<SubSeq(t, 1, stop - 1)>>
                     \o SplitAsciiWhitespace(SubSeq(t, stop, Len(t)))

Methods == {"GET", "POST", "PUT", "PATCH", "DELETE"}

\* the match whose last arm answers GET
MethodOfDefaultGet(token) ==
    IF token = <<"P", "O", "S", "T">> THEN Some("POST")
    ELSE IF token = <<"P", "U", "T">> THEN Some("PUT")
    ELSE IF token = <<"P", "A", "T", "C", "H">> THEN Some("PATCH")
    ELSE IF token = <<"D", "E", "L", "E", "T", "E">> THEN Some("DELETE")
    ELSE Some("GET")

\* lines 65-72: the Method of a token, None for the panic arm
MethodOf(token) ==
    IF token = <<"G", "E", "T">> THEN Some("GET")
    ELSE IF token = <<"P", "O", "S", "T">> THEN Some("POST")
    ELSE IF token = <<"P", "U", "T">> THEN Some("PUT")
    ELSE IF token = <<"P", "A", "T", "C", "H">> THEN Some("PATCH")
    ELSE IF token = <<"D", "E", "L", "E", "T", "E">> THEN Some("DELETE")
    ELSE None

\* the header map in which a later line replaces the value of an earlier one
RECURSIVE HeaderMapOverwrite(_, _)
HeaderMapOverwrite(lines, hashmap) ==
    IF lines = <<>> THEN hashmap
    ELSE LET nv == SplitOnce(Head(lines), ":")
         IN  IF nv = None THEN HeaderMapOverwrite(Tail(lines), hashmap)
             ELSE HeaderMapOverwrite(Tail(lines),
                                     Insert(hashmap, Trim(nv[1][1]), Trim(nv[1][2])))

\* lines 74-88: the header map of the lines after the first
RECURSIVE HeaderMap(_, _)
HeaderMap(lines, hashmap) ==
    IF lines = <<>> THEN hashmap
    ELSE LET nv == SplitOnce(Head(lines), ":")
         IN  IF nv = None THEN HeaderMap(Tail(lines), hashmap)
             ELSE LET name == Trim(nv[1][1])
                      value == Trim(nv[1][2])
                  IN  HeaderMap(Tail(lines),
                        IF name \in DOMAIN hashmap
                        THEN Insert(hashmap, name, hashmap[name] \o <<",", " ">> \o value)
                        ELSE Insert(hashmap, name, value))

DigitValue(c) ==
    CHOOSE d \in 0..9 : Digit(d) = c

IsDigit(c) == \E d \in 0..9 : Digit(d) = c

RECURSIVE DigitsValue(_, _)
DigitsValue(s, acc) ==
    IF s = <<>> THEN acc ELSE DigitsValue(Tail(s), 10 * acc + DigitValue(Head(s)))

\* str::parse::<usize>: an optional '+', then one or more digits; None for Err
\* (the texts of the model stay far below usize::MAX)
ParseUsize(s) ==
    LET digits == IF StartsWith(s, "+") THEN Tail(s) ELSE s
    IN  IF digits = <<>> \/ \E i \in 1..Len(digits) : ~IsDigit(digits[i]) THEN None
        ELSE Some(DigitsValue(digits, 0))

Form_urlencoded ==
    <<"a", "p", "p", "l", "i", "c", "a", "t", "i", "o", "n", "/", "x", "-",
      "w", "w", "w", "-", "f", "o", "r", "m", "-",
      "u", "r", "l", "e", "n", "c", "o", "d", "e", "d">>
Text_plain == <<"t", "e", "x", "t", "/", "p", "l", "a", "i", "n">>

\* lines 102-109: the form map, None when a piece has no '=' (unwrap panics)
RECURSIVE FormMap(_, _)
FormMap(pieces, map) ==
    IF pieces = <<>> THEN Some(map)
    ELSE LET kv == SplitOnce(Head(pieces), "=")
         IN  IF kv = None THEN None
             ELSE FormMap(Tail(pieces), Insert(map, kv[1][1], kv[1][2]))

\* the decoding in which the empty content type falls into the Binary arm too
DecodeBodyBinaryForEmpty(content_type, body_bytes) ==
    IF content_type = Application_json
    THEN [ok |-> TRUE, body |-> Some([kind |-> "JSON", value |-> Utf8Lossy(body_bytes)])]
    ELSE IF content_type = Form_urlencoded
    THEN LET map == FormMap(Split(Utf8Lossy(body_bytes), "&"), EmptyMap)
         IN  IF map = None
             THEN Panic("unwrap on None")
             ELSE [ok |-> TRUE, body |-> Some([kind |-> "FormData", value |-> map[1]])]
    ELSE IF content_type = Text_plain
    THEN [ok |-> TRUE, body |-> Some([kind |-> "Text", value |-> Utf8Lossy(body_bytes)])]
    ELSE [ok |-> TRUE, body |-> Some([kind |-> "Binary", value |-> body_bytes])]

\* lines 97-116: the body of the given content type
DecodeBody(content_type, body_bytes) ==
    IF content_type = Application_json
    THEN [ok |-> TRUE, body |-> Some([kind |-> "JSON", value |-> Utf8Lossy(body_bytes)])]
    ELSE IF content_type = Form_urlencoded
    THEN LET map == FormMap(Split(Utf8Lossy(body_bytes), "&"), EmptyMap)
         IN  IF map = None
             THEN Panic("unwrap on None")
             ELSE [ok |-> TRUE, body |-> Some([kind |-> "FormData", value |-> map[1]])]
    ELSE IF content_type = Text_plain
    THEN [ok |-> TRUE, body |-> Some([kind |-> "Text", value |-> Utf8Lossy(body_bytes)])]
    ELSE IF content_type # <<>>
    THEN [ok |-> TRUE, body |-> Some([kind |-> "Binary", value |-> body_bytes])]
    ELSE [ok |-> TRUE, body |-> None]

\* a Content-Length alone makes a body, of type text/plain
BodyHeadersLengthOnly(hashmap) ==
    IF Content_Length \in DOMAIN hashmap
    THEN Some(<<hashmap[Content_Length],
                IF Content_Type \in DOMAIN hashmap THEN hashmap[Content_Type]
                ELSE Text_plain>>)
    ELSE None

\* lines 92-93: the two header values that make a body, None when either
\* header is missing
BodyHeaders(hashmap) ==
    IF Content_Length \in DOMAIN hashmap /\ Content_Type \in DOMAIN hashmap
    THEN Some(<<hashmap[Content_Length], hashmap[Content_Type]>>)
    ELSE None

\* Request::new
Request_new(s) ==
    LET h == read_header(s)
    IN  IF ~h.ok THEN h
        ELSE IF h.vec = <<>> THEN Panic("index out of bounds")
        ELSE LET first_line == SplitAsciiWhitespace(h.vec[1])
             IN  IF Len(first_line) # 3 THEN Panic("The Header is invalid (first line)")
                 ELSE IF MethodOf(first_line[1]) = None THEN Panic("Invalid Method")
                 ELSE
    LET method == MethodOf(first_line[1])[1]
        route == first_line[2]
        hashmap == HeaderMap(Tail(h.vec), EmptyMap)
        made(body, unread, short) ==
            [ok |-> TRUE,
             request |-> [method |-> method, route |-> route, headers |-> hashmap,
                          body |-> body, params |-> None, search_params |-> None],
             unread |-> unread, short |-> short]
        both == BodyHeaders(hashmap)
    IN  IF both # None
        THEN LET content_length == ParseUsize(both[1][1])
             IN  IF content_length = None
                 THEN Panic("unwrap on Err")
                 ELSE LET b == read_body(h.unread, content_length[1], h.left_over)
                      IN  IF ~b.ok THEN b
                          ELSE LET d == DecodeBody(both[1][2], b.bytes)
                               IN  IF ~d.ok THEN d
                                   ELSE made(d.body, b.unread, b.short)
        ELSE made(None, h.unread, FALSE)

(***************************************************************************)
(* Inputs: the paths applications register, and the connections peers      *)
(* open.                                                                   *)
(***************************************************************************)
P_a == <<"/", "a">>
P_a_q1 == <<"/", "a", "?", "q", "=", "1">>
P_bare == <<"a">>
P_x == <<"/", ":", "x">>
P_user_id == <<"/", "u", "s", "e", "r", "/", ":", "i", "d">>
P_x_x == <<"/", ":", "x", "/", ":", "x">>
P_a_colon == <<"/", "a", ":", "b">>

RegPaths == {P_a, P_a_q1, P_bare, P_x, P_user_id, P_x_x, P_a_colon}

\* post, put, patch and delete run the code of get with another Method; they
\* are given fewer paths
PostPaths == {P_user_id}
OtherPaths == {P_a}

R_user_42 == <<"/", "u", "s", "e", "r", "/", "4", "2">>
R_item_42 == <<"/", "i", "t", "e", "m", "/", "4", "2">>
R_user_42_extra == R_user_42 \o <<"/", "e", "x", "t", "r", "a">>
R_user == <<"/", "u", "s", "e", "r">>
R_b == <<"/", "b">>
R_root == <<"/">>
R_a_q2 == <<"/", "a", "?", "q", "=", "2">>
R_bare_q == <<"a", "?", "q", "=", "1">>
R_search ==
    <<"/", "s", "e", "a", "r", "c", "h", "?", "q", "=", "c", "a", "t", "s", "&",
      "l", "i", "m", "i", "t", "=", "5">>
R_user_q == R_user_42 \o <<"?", "q", "=", "1", "=", "2", "&", "z", "&", "&", "q", "=", "?", "3">>
R_a_empty_q == <<"/", "a", "?">>

ReqPaths ==
    {P_a, P_a_q1, P_bare, R_user_42, R_item_42, R_user_42_extra, R_user, R_b, R_root,
     R_a_q2, R_bare_q, R_search, R_user_q, R_a_empty_q}

T_GET == <<"G", "E", "T">>
T_POST == <<"P", "O", "S", "T">>
T_PUT == <<"P", "U", "T">>
T_PATCH == <<"P", "A", "T", "C", "H">>
T_DELETE == <<"D", "E", "L", "E", "T", "E">>
T_HEAD == <<"H", "E", "A", "D">>
Version == <<"H", "T", "T", "P", "/", "1", ".", "1">>

RequestLine(token, path) == token \o <<" ">> \o path \o <<" ">> \o Version \o CRLF

HeaderLine(name, value) == name \o <<":", " ">> \o value \o CRLF

\* a request without headers or body
Bare(token, path) == RequestLine(token, path) \o CRLF

\* a request with the two body headers and the given bytes after the blank line
WithBody(token, path, length, type, bytes) ==
    RequestLine(token, path) \o HeaderLine(Content_Length, length)
        \o HeaderLine(Content_Type, type) \o CRLF \o bytes

Peer(bytes, chunk) == [bytes |-> bytes, chunk |-> chunk]

SmallChunk == 7

Connections ==
    {Peer(Bare(T_GET, path), TempSize) : path \in ReqPaths}
        \cup {Peer(Bare(T_POST, path), TempSize) : path \in {P_a, R_user_42}}
        \cup {Peer(Bare(token, P_a), TempSize) : token \in {T_PUT, T_PATCH, T_DELETE}}
        \cup {Peer(Bare(T_GET, path), SmallChunk) : path \in {P_a, R_user_42}}
        \cup {\* the peer closes before the blank line, or at once
              Peer(RequestLine(T_GET, P_a), TempSize),
              Peer(RequestLine(T_GET, P_a), SmallChunk),
              Peer(<<>>, TempSize),
              \* two tokens; a method outside the set; no line at all
              Peer(T_GET \o <<" ">> \o P_a \o CRLF \o CRLF, TempSize),
              Peer(Bare(T_HEAD, P_a), TempSize),
              Peer(CRLF \o CRLF, TempSize),
              \* a body that arrives whole, and one the peer cuts short
              Peer(WithBody(T_POST, P_a, <<"2">>, Text_plain, <<"h", "i">>), TempSize),
              Peer(WithBody(T_POST, P_a, <<"5">>, Text_plain, <<"h", "i">>), TempSize),
              Peer(WithBody(T_POST, P_a, <<"5">>, Text_plain, <<"h", "i">>), SmallChunk)}

\* Request::new on each connection
Parsed == [c \in Connections |-> Request_new(c)]

(***************************************************************************)
(* The program.                                                            *)
(***************************************************************************)
Init ==
    /\ static_methods = EmptyMap
    /\ dynamic_methods = <<>>
    /\ registered = <<>>
    /\ pc = "setup"
    /\ stream = None
    /\ request = None
    /\ calls = <<>>
    /\ written = <<>>
    /\ conn = None
    /\ scanned = None
    /\ panic = None
    /\ resp = None
    /\ built = <<>>
    /\ frame = None

Registering ==
    /\ pc = "setup"
    /\ Len(registered) < MaxRoutes
    /\ UNCHANGED <<pc, stream, request, calls, written, conn, scanned, panic,
                   resp, built, frame>>

\* Application::get
get ==
    /\ Registering
    /\ \E route \in RegPaths : add_new_route(route, "GET", Len(registered) + 1)

\* Application::post
post ==
    /\ Registering
    /\ \E route \in PostPaths : add_new_route(route, "POST", Len(registered) + 1)

\* Application::put
put ==
    /\ Registering
    /\ \E route \in OtherPaths : add_new_route(route, "PUT", Len(registered) + 1)

\* Application::patch
patch ==
    /\ Registering
    /\ \E route \in OtherPaths : add_new_route(route, "PATCH", Len(registered) + 1)

\* Application::delete
delete ==
    /\ Registering
    /\ \E route \in OtherPaths : add_new_route(route, "DELETE", Len(registered) + 1)

\* Application::listen, up to the loop (lines 353-355)
listen ==
    /\ pc = "setup"
    /\ pc' = "listening"
    /\ UNCHANGED <<static_methods, dynamic_methods, registered, stream, request, calls,
                   written, conn, scanned, panic, resp, built, frame>>

\* one turn of the loop, first half (lines 357-359): the next connection is
\* accepted and Request::new reads it; a panic leaves listen and ends the process
Accept(connections, parsed) ==
    /\ pc = "listening"
    /\ \E c \in connections :
          LET r == parsed[c]
          IN  /\ conn' = Some(c)
              /\ IF r.ok
                 THEN /\ request' = Some(r.request)
                      /\ stream' = Some([bytes |-> r.unread, chunk |-> c.chunk,
                                         short |-> r.short])
                      /\ pc' = "parsed"
                      /\ UNCHANGED panic
                 ELSE /\ request' = None
                      /\ stream' = None
                      /\ pc' = "panicked"
                      /\ panic' = Some(r.panic)
    /\ UNCHANGED <<static_methods, dynamic_methods, registered, calls, written, scanned,
                   resp, built, frame>>

accept == Accept(Connections, Parsed)

\* one turn of the loop, second half (lines 361-367)
dispatch ==
    /\ pc = "parsed"
    /\ LET e == execute_route(request[1].route, request[1].method, request[1], Response_new)
       IN  /\ request' = Some(e.request)
           /\ calls' = e.calls
           /\ written' = e.written
           /\ scanned' = e.scanned
    /\ pc' = "answered"
    /\ UNCHANGED <<static_methods, dynamic_methods, registered, stream, conn, panic,
                   resp, built, frame>>

\* the end of the loop body (line 368): the request and the stream are dropped,
\* which closes the connection, and the loop waits for the next one
close ==
    /\ pc = "answered"
    /\ pc' = "listening"
    /\ stream' = None
    /\ request' = None
    /\ calls' = <<>>
    /\ written' = <<>>
    /\ conn' = None
    /\ scanned' = None
    /\ UNCHANGED <<static_methods, dynamic_methods, registered, panic, resp, built, frame>>

Next == get \/ post \/ put \/ patch \/ delete \/ listen \/ accept \/ dispatch \/ close

Spec == Init /\ [][Next]_vars

(***************************************************************************)
(* Reading in detail: the same program, registering with post only, and    *)
(* accepting connections that vary the request line, the header lines and  *)
(* the body.                                                               *)
(***************************************************************************)

\* header lines as a peer writes them, without the line end
\* (a name twice, white space around name and value, a name that differs in
\* case, a ':' in the value, an empty value, no ':' at all)
L_A_1 == <<"A", ":", " ", "1">>
L_A_2 == <<" ", "A", " ", ":", "2", " ">>
L_a_xy == <<"a", ":", "x", ":", " ", "y">>
L_B_none == <<"B", ":">>
L_word == <<"w", "o", "r", "d">>

HeaderLines == {L_A_1, L_A_2, L_a_xy, L_B_none, L_word}

MaxHeaders == 3

LineSeqs == UNION {[1..n -> HeaderLines] : n \in 0..MaxHeaders}

RECURSIVE Lines(_)
Lines(lines) == IF lines = <<>> THEN <<>> ELSE Head(lines) \o CRLF \o Lines(Tail(lines))

\* the request line of POST /user/42, then the given lines, then the blank line
WithLines(first, lines) == first \o CRLF \o Lines(lines) \o CRLF

FirstLine(token, path) == token \o <<" ">> \o path \o <<" ">> \o Version

Good_first == FirstLine(T_POST, R_user_42)

HeaderPeers == {Peer(WithLines(Good_first, lines), TempSize) : lines \in LineSeqs}

\* request lines: every method, other tokens, other token counts, other
\* white space, a blank line first, and no request line at all
FirstLines ==
    {FirstLine(token, R_user_42) :
        token \in {T_GET, T_POST, T_PUT, T_PATCH, T_DELETE, T_HEAD,
                   <<"p", "o", "s", "t">>, <<"P", "O", "S", "T", "S">>}}
      \cup {T_POST \o <<" ", " ">> \o R_user_42 \o <<"\t">> \o Version \o <<" ">>,
            <<" ">> \o Good_first,
            CRLF \o Good_first,
            T_POST \o <<" ">> \o R_user_42,
            T_POST,
            Good_first \o <<" ">> \o <<"x">>,
            T_POST \o R_user_42 \o <<" ">> \o Version \o <<" ">> \o Version,
            <<>>,
            <<" ">>}

FirstLinePeers ==
    {Peer(WithLines(first, lines), chunk) :
        first \in FirstLines, lines \in {<<>>, <<L_A_1>>}, chunk \in {TempSize, SmallChunk}}

\* body bytes a peer sends after the blank line
B_none == <<>>
B_hi == <<"h", "i">>
B_json == <<"{", "}">>
B_raw == <<"xFF", "h">>
B_a1 == <<"a", "=", "1">>
B_a1_b == <<"a", "=", "1", "&", "b">>
B_form == <<"a", "=", "1", "&", "b", "=", "2", "=", "3", "&", "a", "=">>

Bodies == {B_none, B_hi, B_json, B_raw, B_a1, B_a1_b, B_form}

\* Content-Type values: the three named ones, another, one that differs in
\* case only, and the empty one
ContentTypes ==
    {Application_json, Form_urlencoded, Text_plain, <<"a", "/", "b">>,
     <<"T", "e", "x", "t", "/", "p", "l", "a", "i", "n">>, <<>>}

\* how far a declared length may exceed the bytes sent
Slack == 2

\* Content-Length values for a body: none, one byte, the bytes sent, more than
\* them, and a text that is no number
Declared(bytes) ==
    {Decimal(n) : n \in {0, 1, Len(bytes)} \cup (Len(bytes) + 1)..(Len(bytes) + Slack)}
        \cup {<<"x">>}

Chunks == {TempSize, SmallChunk}

BodyPeers ==
    {Peer(WithLines(Good_first, <<Content_Length \o <<":", " ">> \o length,
                                  Content_Type \o <<":">> \o type>>) \o bytes, chunk) :
        length \in UNION {Declared(b) : b \in Bodies}, type \in ContentTypes,
        bytes \in Bodies, chunk \in Chunks}

\* one of the two body headers, or a name that differs from it in case only
OneHeaderPeers ==
    {Peer(WithLines(Good_first, <<line>>) \o bytes, chunk) :
        line \in {Content_Length \o <<":", " ">> \o Decimal(Len(B_form)),
                  Content_Type \o <<":", " ">> \o Text_plain},
        bytes \in {B_hi, B_form}, chunk \in Chunks}
      \cup
    {Peer(WithLines(Good_first, <<name \o <<":", " ">> \o Decimal(Len(B_form)),
                                  Content_Type \o <<":", " ">> \o Text_plain>>) \o B_form,
          chunk) :
        name \in {<<"c", "o", "n", "t", "e", "n", "t", "-", "l", "e", "n", "g", "t", "h">>},
        chunk \in Chunks}

ReadConnections == HeaderPeers \cup FirstLinePeers \cup BodyPeers \cup OneHeaderPeers

\* Request::new on each of them
ParsedRead == [c \in ReadConnections |-> Request_new(c)]

accept_read == Accept(ReadConnections, ParsedRead)

ReadNext == post \/ listen \/ accept_read \/ dispatch \/ close

ReadSpec == Init /\ [][ReadNext]_vars

(***************************************************************************)
(* A handler at work: the Response that execute_route was given             *)
(* (Response::new(), lib.rs 365) goes through the builder calls of the      *)
(* handler and is then sent once.                                          *)
(***************************************************************************)

\* status codes a handler sets
Codes == {0 - 1, 0, 200, 201, 404, 500}

\* texts a handler answers with
X_none == <<>>
X_json == <<"{", "}">>
X_html == <<"<", "h", "1", ">", "H", "i", "<", "/", "h", "1", ">">>
X_long == <<"{", "\"", "m", "e", "s", "s", "a", "g", "e", "\"", ":", "1", "}">>

Texts == {X_none, X_json, X_html, X_long}

\* how many builder calls a handler chains
MaxCalls == 2

\* lib.rs 365: the Response of the connection
call_new ==
    /\ resp = None
    /\ resp' = Some(Response_new)
    /\ UNCHANGED <<static_methods, dynamic_methods, registered, pc, stream, request, calls,
                   written, conn, scanned, panic, built, frame>>

Building ==
    /\ resp # None
    /\ written = <<>>
    /\ Len(built) < MaxCalls
    /\ UNCHANGED <<static_methods, dynamic_methods, registered, pc, stream, request, calls,
                   written, conn, scanned, panic, frame>>

\* the handler calls Response::status
call_status ==
    /\ Building
    /\ \E code \in Codes :
          /\ resp' = Some(status(resp[1], code))
          /\ built' = Append(built, <<"status", code>>)

\* the handler calls Response::html
call_html ==
    /\ Building
    /\ \E text \in Texts :
          /\ resp' = Some(html(resp[1], text))
          /\ built' = Append(built, <<"html", text>>)

\* the handler calls Response::json
call_json ==
    /\ Building
    /\ \E text \in Texts :
          /\ resp' = Some(json(resp[1], text))
          /\ built' = Append(built, <<"json", text>>)

\* execute_route sends what the handler returned (lib.rs 396, 421)
call_send ==
    /\ resp # None
    /\ written = <<>>
    /\ written' = <<send(resp[1])>>
    /\ UNCHANGED <<static_methods, dynamic_methods, registered, pc, stream, request, calls,
                   conn, scanned, panic, resp, built, frame>>

ResponseNext == call_new \/ call_status \/ call_html \/ call_json \/ call_send

ResponseSpec == Init /\ [][ResponseNext]_vars

(***************************************************************************)
(* Registering in detail: the same registration calls, get being given     *)
(* more paths.                                                             *)
(***************************************************************************)

\* paths with white space around them, with empty parts, with a bare ':',
\* with a ':' inside the first part, and the root
P_spaced == <<" ", "/", "a", "/", ":", "x", " ">>
P_spaced_static == <<" ", "/", "a">>
P_doubled == <<"/", "a", "/", "/", ":", "x", "/">>
P_colon == <<":">>
P_inner == <<"a", ":", "b", "/", "c">>
P_root == <<"/">>

MorePaths ==
    RegPaths \cup {P_spaced, P_spaced_static, P_doubled, P_colon, P_inner, P_root}

\* Application::get, over these paths
get_more ==
    /\ Registering
    /\ \E route \in MorePaths : add_new_route(route, "GET", Len(registered) + 1)

RegisterNext == get_more \/ post \/ put \/ patch \/ delete

RegisterSpec == Init /\ [][RegisterNext]_vars

(***************************************************************************)
(* read_header at work: the bytes of a connection arrive in reads of any   *)
(* size, and each turn of the loop of read_header is one step.             *)
(***************************************************************************)

\* the bytes a peer sends: the two of the terminator and one other
FrameBytes == {"\r", "\n", "a"}

\* how many bytes a peer sends
MaxBytes == 6

Streams == UNION {[1..n -> FrameBytes] : n \in 0..MaxBytes}

\* lines 357-359 and 180-181: a connection comes in and read_header starts
\* with an empty buffer
incoming ==
    /\ pc = "listening"
    /\ \E bytes \in Streams :
          /\ conn' = Some(Peer(bytes, TempSize))
          /\ stream' = Some([bytes |-> bytes, chunk |-> TempSize, short |-> FALSE])
    /\ frame' = Some([buf |-> <<>>, reads |-> <<>>, result |-> None])
    /\ pc' = "reading"
    /\ UNCHANGED <<static_methods, dynamic_methods, registered, request, calls, written,
                   scanned, panic, resp, built>>

\* lines 184-206: one turn of the loop.  The read returns any number of the
\* bytes still to come, up to the size of temp; at the end of the stream it
\* returns 0, the loop breaks and read_header panics
read ==
    /\ pc = "reading"
    /\ LET unread == stream[1].bytes
       IN  IF unread = <<>>
           THEN /\ pc' = "panicked"
                /\ panic' = Some("Connection Stopped before finishing")
                /\ UNCHANGED <<stream, frame>>
           ELSE \E n \in 1..Min(TempSize, Len(unread)) :
                   LET t == read_turn(frame[1].buf, unread, n)
                   IN  /\ frame' = Some([buf |-> t.buf,
                                         reads |-> Append(frame[1].reads, n),
                                         result |-> IF t.done THEN Some(t.result)
                                                    ELSE None])
                       /\ stream' = Some([stream[1] EXCEPT
                                             !.bytes = SubSeq(unread, n + 1, Len(unread))])
                       /\ pc' = IF t.done THEN "framed" ELSE "reading"
                       /\ UNCHANGED panic
    /\ UNCHANGED <<static_methods, dynamic_methods, registered, request, calls, written,
                   conn, scanned, resp, built>>

FrameNext == listen \/ incoming \/ read

FrameSpec == Init /\ [][FrameNext]_vars

(***************************************************************************)
(* Vocabulary of the properties, stated on the text itself and not through *)
(* the operators above.                                                    *)
(***************************************************************************)

\* a connection has been read, routed and answered (or left unanswered)
Answered == pc = "answered"

Req == request[1]

HasChar(text, c) == \E i \in 1..Len(text) : text[i] = c

\* how many characters precede the first '?' (all of them when there is none)
QueryAt(route) ==
    CHOOSE n \in 0..Len(route) :
        /\ \A i \in 1..n : route[i] # "?"
        /\ n = Len(route) \/ route[n + 1] = "?"

\* the text before the first '?', and the text after it
RoutingPath(route) == SubSeq(route, 1, QueryAt(route))
QueryText(route) == SubSeq(route, QueryAt(route) + 2, Len(route))

\* the maximal runs of characters other than sep, as index pairs <<first, last>>
\* (an empty run between two adjacent separators has last = first - 1)
Runs(text, sep) ==
    LET firsts == {i \in 1..(Len(text) + 1) : i = 1 \/ text[i - 1] = sep}
        lasts == {j \in 0..Len(text) : j = Len(text) \/ text[j + 1] = sep}
    IN  {r \in firsts \X lasts :
            /\ r[1] <= r[2] + 1
            /\ \A j \in lasts : j < r[2] => j + 1 < r[1]}

\* the non-empty '/'-segments of a path, in order
SegmentRuns(path) == {r \in Runs(path, "/") : r[1] <= r[2]}
SegmentCount(path) == Cardinality(SegmentRuns(path))
SegmentAt(path, k) ==
    LET runs == SegmentRuns(path)
        r == CHOOSE r \in runs : Cardinality({q \in runs : q[1] < r[1]}) = k - 1
    IN  SubSeq(path, r[1], r[2])

\* the '&'-pieces of a query text that hold a '=', each as <<piece, place of
\* its first '='>>
Pairs(query) ==
    {t \in Runs(query, "&") \X (1..Len(query)) :
        /\ t[1][1] <= t[2] /\ t[2] <= t[1][2]
        /\ query[t[2]] = "="
        /\ \A i \in t[1][1]..(t[2] - 1) : query[i] # "="}

PairKey(query, t) == SubSeq(query, t[1][1], t[2] - 1)
PairValue(query, t) == SubSeq(query, t[2] + 1, t[1][2])

\* the mapping a query text stands for: each key to the value of its last pair
QueryMapping(query) ==
    LET keys == {PairKey(query, t) : t \in Pairs(query)}
        last(k) == CHOOSE t \in Pairs(query) :
                       /\ PairKey(query, t) = k
                       /\ \A u \in Pairs(query) : PairKey(query, u) = k => u[2] <= t[2]
    IN  [k \in keys |-> PairValue(query, last(k))]

\* a static route is registered under exactly this method and path
StaticRegistered(method, path) == <<method, path>> \in DOMAIN static_methods

\* candidate i of the dynamic list matches the request in full: method,
\* segment count and every Static literal
FullMatch(i, method, path) ==
    LET cand == dynamic_methods[i]
    IN  /\ cand.method = method
        /\ Len(cand.segments) = SegmentCount(path)
        /\ \A k \in 1..Len(cand.segments) :
              cand.segments[k].kind = "Static" => cand.segments[k].s = SegmentAt(path, k)

FullMatches(method, path) ==
    {i \in 1..Len(dynamic_methods) : FullMatch(i, method, path)}

\* the request went to the dynamic scan: its routing path starts with '/' and
\* the static lookup missed
Scanning ==
    /\ Answered
    /\ StartsWith(RoutingPath(Req.route), "/")
    /\ ~StaticRegistered(Req.method, Req.route)

\* the segments of a path, in order
SegmentsOf(path) == [k \in 1..SegmentCount(path) |-> SegmentAt(path, k)]

\* the candidate a dynamic invocation selected
Selected(call) == dynamic_methods[call.index]

DynamicCalls == {k \in 1..Len(calls) : calls[k].table = "dynamic"}
StaticCalls == {k \in 1..Len(calls) : calls[k].table = "static"}

(***************************************************************************)
(* Properties.                                                             *)
(***************************************************************************)

\* C1: a dynamic route with a Static segment that differs from the request
\* segment at the same position is never selected.
C1_MismatchedCandidateNeverSelected ==
    \A k \in DynamicCalls :
        \A p \in 1..Len(Selected(calls[k]).segments) :
            Selected(calls[k]).segments[p].kind = "Static"
                => Selected(calls[k]).segments[p].s = SegmentAt(RoutingPath(Req.route), p)

NotFoundLine == StatusLinePrefix \o <<"4", "0", "4">>

\* C2: a request that matches neither a static route nor any dynamic route is
\* answered with one 404 response.
C2_UnmatchedRequestGets404 ==
    (/\ Answered
     /\ ~StaticRegistered(Req.method, Req.route)
     /\ FullMatches(Req.method, RoutingPath(Req.route)) = {})
        => /\ Len(written) = 1
           /\ SubSeq(written[1], 1, Len(NotFoundLine)) = NotFoundLine

ConnectionErrors ==
    {"Connection Stopped before finishing", "The Header is invalid (first line)",
     "Invalid Method"}

\* C3: a framing error or a malformed request line on one connection does not
\* end the process: listen keeps accepting.
C3_ParseFailureLeavesListenRunning ==
    (panic # None /\ panic[1] \in ConnectionErrors) => pc # "panicked"

\* the static handler registered for the request's method and full path ran,
\* and nothing else did
StaticInvoked ==
    /\ Len(calls) = 1
    /\ calls[1].table = "static"
    /\ calls[1].function = static_methods[<<Req.method, Req.route>>]

\* C4 as stated: whenever a static route is registered under the request's
\* method and path, its handler is the one invoked.
C4_StaticAlwaysInvoked ==
    (Answered /\ StaticRegistered(Req.method, Req.route)) => StaticInvoked

\* C4: when a static route is registered under the request's method and path
\* and the path before any '?' starts with '/', its handler is the one invoked
\* and no dynamic handler runs.
C4_StaticInvokedOnSlashPath ==
    (/\ Answered
     /\ StaticRegistered(Req.method, Req.route)
     /\ StartsWith(RoutingPath(Req.route), "/")) => StaticInvoked

\* the static handler ran although a dynamic route registered before it
\* matches the request in full
C4_Witness ==
    /\ Answered
    /\ StaticRegistered(Req.method, Req.route)
    /\ StaticInvoked
    /\ \E i \in FullMatches(Req.method, RoutingPath(Req.route)) :
          dynamic_methods[i].function < static_methods[<<Req.method, Req.route>>]

\* C5: the dynamic list is in registration order, and when several dynamic
\* routes match the request in full the earliest of them is the one invoked.
C5_EarliestFullMatchInvoked ==
    /\ \A i, j \in 1..Len(dynamic_methods) :
          i < j => dynamic_methods[i].function < dynamic_methods[j].function
    /\ (Scanning /\ Cardinality(FullMatches(Req.method, RoutingPath(Req.route))) >= 2)
          => /\ Len(calls) = 1
             /\ calls[1].table = "dynamic"
             /\ \A i \in FullMatches(Req.method, RoutingPath(Req.route)) :
                   calls[1].index <= i
             /\ calls[1].index \in FullMatches(Req.method, RoutingPath(Req.route))

StaticRegistrations == {k \in 1..Len(registered) : ~HasChar(registered[k].path, ":")}
KeyOf(k) == <<registered[k].method, registered[k].path>>

\* C6: the static table holds one handler per (method, path) registered
\* without ':', the handler of the last registration made with that pair.
C6_StaticLastRegistrationWins ==
    /\ DOMAIN static_methods = {KeyOf(k) : k \in StaticRegistrations}
    /\ \A k \in StaticRegistrations :
          (\A j \in StaticRegistrations : KeyOf(j) = KeyOf(k) => j <= k)
              => static_methods[KeyOf(k)] = registered[k].function

\* a pair registered twice, with another pair registered as well
C6_Witness ==
    \E j, k, o \in StaticRegistrations :
        /\ j < k /\ KeyOf(j) = KeyOf(k)
        /\ KeyOf(o) # KeyOf(k)
        /\ static_methods[KeyOf(k)] = registered[k].function
        /\ \A i \in StaticRegistrations : KeyOf(i) = KeyOf(k) => i <= k

\* C7: a dynamic route's handler is invoked only if the route has as many
\* segments as the query-stripped request path and the request's method.
C7_DynamicInvokedOnlyOnCountAndMethod ==
    \A k \in DynamicCalls :
        /\ Len(Selected(calls[k]).segments) = SegmentCount(RoutingPath(Req.route))
        /\ Selected(calls[k]).method = Req.method

\* /user/:id is passed over for /user/42/extra, and no handler runs
C7_Witness ==
    /\ Answered
    /\ Req.route = R_user_42_extra
    /\ scanned # None
    /\ calls = <<>>
    /\ \E i \in 1..Len(dynamic_methods) :
          /\ dynamic_methods[i].method = Req.method
          /\ dynamic_methods[i].segments =
                 <<Static(<<"u", "s", "e", "r">>), Dynamic(IdKey)>>

DynamicPlaces(segments) == {p \in 1..Len(segments) : segments[p].kind = "Dynamic"}

\* C8 as stated: the parameter mapping the handler sees has the names of the
\* selected route's Dynamic segments as keys, each bound to the request
\* segment at the position of that Dynamic segment.
C8_EveryDynamicSegmentBoundInPlace ==
    \A k \in DynamicCalls :
        LET segments == Selected(calls[k]).segments
            seen == calls[k].request.params
        IN  /\ seen # None
            /\ DOMAIN seen[1] = {segments[p].s : p \in DynamicPlaces(segments)}
            /\ \A p \in DynamicPlaces(segments) :
                  seen[1][segments[p].s] = SegmentAt(RoutingPath(Req.route), p)

\* C8: the parameter mapping the handler sees has the names of the selected
\* route's Dynamic segments as keys, each bound to the request segment at the
\* last position where a Dynamic segment bears that name.
C8_ParamsOfSelectedRoute ==
    \A k \in DynamicCalls :
        LET segments == Selected(calls[k]).segments
            seen == calls[k].request.params
        IN  /\ seen # None
            /\ DOMAIN seen[1] = {segments[p].s : p \in DynamicPlaces(segments)}
            /\ \A p \in DynamicPlaces(segments) :
                  (\A q \in DynamicPlaces(segments) :
                       segments[q].s = segments[p].s => q <= p)
                      => seen[1][segments[p].s] = SegmentAt(RoutingPath(Req.route), p)

\* /user/:id selected for /user/42: the handler reads id = 42
C8_Witness ==
    /\ Answered
    /\ Req.route = R_user_42
    /\ DynamicCalls = {1}
    /\ Selected(calls[1]).segments = <<Static(<<"u", "s", "e", "r">>), Dynamic(IdKey)>>
    /\ get_param(calls[1].request, IdKey) = Some(<<"4", "2">>)

\* C9: for a request path holding '?', the query mapping attached is that of
\* the text after the first '?', whether or not a route matches, and the
\* dynamic scan runs on the segments of the text before it.
C9_QuerySplitFromRoutingPath ==
    (Answered /\ HasChar(Req.route, "?"))
        => /\ Req.search_params = Some(QueryMapping(QueryText(Req.route)))
           /\ \A k \in 1..Len(calls) : calls[k].request.search_params = Req.search_params
           /\ scanned # None => scanned[1] = SegmentsOf(RoutingPath(Req.route))

\* /search?q=cats&limit=5 with no route matching
C9_Witness ==
    /\ Answered
    /\ Req.route = R_search
    /\ calls = <<>>
    /\ scanned = Some(<<<<"s", "e", "a", "r", "c", "h">>>>)
    /\ get_search_param(Req, <<"q">>) = Some(<<"c", "a", "t", "s">>)
    /\ get_search_param(Req, <<"l", "i", "m", "i", "t">>) = Some(<<"5">>)
    /\ DOMAIN Req.search_params[1] = {<<"q">>, <<"l", "i", "m", "i", "t">>}

\* a static handler runs only for the full path string
StaticOnlyUnderFullPath ==
    \A k \in StaticCalls :
        /\ StaticRegistered(Req.method, Req.route)
        /\ calls[k].function = static_methods[<<Req.method, Req.route>>]

\* the request went to the dynamic scan on its query-stripped path
FellThrough ==
    /\ StaticCalls = {}
    /\ scanned = Some(SegmentsOf(RoutingPath(Req.route)))

RouteMatches ==
    \/ StaticRegistered(Req.method, Req.route)
    \/ FullMatches(Req.method, RoutingPath(Req.route)) # {}

\* the decimal text of the status codes the model's responses bear
CodeText(code) ==
    CASE code = 200 -> <<"2", "0", "0">>
      [] code = 201 -> <<"2", "0", "1">>
      [] code = 404 -> <<"4", "0", "4">>

\* the bytes open with the status line of the response and, when the response
\* has a body, close with a blank line and that body
Carries(bytes, res) ==
    LET head == StatusLinePrefix \o CodeText(res.status) \o CRLF
        tail == CRLF \o CRLF \o res.body
    IN  /\ Len(bytes) >= Len(head) + Len(tail) - 2
        /\ SubSeq(bytes, 1, Len(head)) = head
        /\ SubSeq(bytes, Len(bytes) - Len(tail) + 1, Len(bytes)) = tail

\* exactly one handler ran, once, and one write followed with its response
OneHandlerOneWrite ==
    /\ Len(calls) = 1
    /\ Len(written) = 1
    /\ Carries(written[1], calls[1].response)

ProbeKeys ==
    {IdKey, <<"x">>, <<"q">>, <<"z">>, <<"l", "i", "m", "i", "t">>, <<>>, <<"a">>}

\* C18: a handler invoked through a static route has no path-parameter
\* mapping and get_param answers absent for every key; a handler invoked for
\* a path without '?' has no query mapping and get_search_param answers
\* absent for every key.
C18_MappingsAttachedOnlyByTheirSource ==
    \A i \in 1..Len(calls) :
        LET seen == calls[i].request
        IN  /\ calls[i].table = "static" =>
                   /\ seen.params = None
                   /\ \A k \in ProbeKeys : get_param(seen, k) = None
            /\ ~HasChar(seen.route, "?") =>
                   /\ seen.search_params = None
                   /\ \A k \in ProbeKeys : get_search_param(seen, k) = None

\* a static route is invoked for a path with a query: the handler reads the
\* query parameter and no path parameter
C18_Witness ==
    /\ Answered
    /\ Len(calls) = 1
    /\ calls[1].table = "static"
    /\ get_search_param(calls[1].request, <<"q">>) = Some(<<"1">>)
    /\ get_param(calls[1].request, <<"q">>) = None

(***************************************************************************)
(* Vocabulary of the properties about reading, stated on the bytes the     *)
(* peer sent.                                                              *)
(***************************************************************************)

\* the bytes of the connection at hand
Sent == conn[1].bytes

\* where the first blank line (CR LF CR LF) starts, 0 when there is none
TermAt(bytes) ==
    LET at == {i \in 1..Len(bytes) :
                  /\ i + 3 <= Len(bytes)
                  /\ bytes[i] = "\r" /\ bytes[i + 1] = "\n"
                  /\ bytes[i + 2] = "\r" /\ bytes[i + 3] = "\n"}
    IN  IF at = {} THEN 0 ELSE CHOOSE i \in at : \A j \in at : i <= j

\* the header block, blank line included, and the bytes sent after it
HeaderEnd(bytes) == TermAt(bytes) + 3
HeaderBlock(bytes) == SubSeq(bytes, 1, HeaderEnd(bytes))
AfterBlank(bytes) == SubSeq(bytes, HeaderEnd(bytes) + 1, Len(bytes))

\* how many bytes the reads of framing take off a stream that hands out
\* chunk bytes a read: whole reads until the blank line is in
FramingTakes(bytes, chunk) ==
    LET end == HeaderEnd(bytes)
        reads == CHOOSE k \in 1..Len(bytes) :
                     /\ k * chunk >= end
                     /\ (k - 1) * chunk < end
    IN  IF reads * chunk < Len(bytes) THEN reads * chunk ELSE Len(bytes)

\* a text without the white space around it
Strip(text) ==
    LET keep == {i \in 1..Len(text) : text[i] \notin {" ", "\t", "\r", "\n"}}
    IN  IF keep = {} THEN <<>>
        ELSE SubSeq(text, CHOOSE i \in keep : \A j \in keep : i <= j,
                          CHOOSE i \in keep : \A j \in keep : i >= j)

\* the stripped, non-empty lines of a header block, in order
BlockLines(block) ==
    LET runs == {r \in Runs(block, "\n") : Strip(SubSeq(block, r[1], r[2])) # <<>>}
        at(k) == CHOOSE r \in runs : Cardinality({q \in runs : q[1] < r[1]}) = k - 1
    IN  [k \in 1..Cardinality(runs) |-> Strip(SubSeq(block, at(k)[1], at(k)[2]))]

\* where the first ':' of a line is, 0 when it has none
ColonAt(line) ==
    LET at == {i \in 1..Len(line) : line[i] = ":"}
    IN  IF at = {} THEN 0 ELSE CHOOSE i \in at : \A j \in at : i <= j

NameOf(line) == Strip(SubSeq(line, 1, ColonAt(line) - 1))
ValueOf(line) == Strip(SubSeq(line, ColonAt(line) + 1, Len(line)))

\* the header lines of the connection: the lines after the first that have a ':'
HeaderLinesOf(bytes) ==
    LET lines == BlockLines(HeaderBlock(bytes))
    IN  SelectSeq(SubSeq(lines, 2, Len(lines)), LAMBDA l : ColonAt(l) # 0)

\* the values of the lines, joined by ", "
RECURSIVE Joined(_)
Joined(lines) ==
    IF Len(lines) = 1 THEN ValueOf(lines[1])
    ELSE ValueOf(lines[1]) \o <<",", " ">> \o Joined(Tail(lines))

\* a request has been produced from the connection at hand
Produced == conn # None /\ request # None

\* C12: the header mapping of a produced request has one entry per distinct
\* stripped name of the header lines, and its value is the stripped values of
\* the lines of that name joined by ", " in the order of the lines.
C12_HeadersFoldedInOrder ==
    Produced =>
        LET lines == HeaderLinesOf(Sent)
            names == {NameOf(lines[k]) : k \in 1..Len(lines)}
        IN  /\ DOMAIN Req.headers = names
            /\ \A n \in names :
                   Req.headers[n] = Joined(SelectSeq(lines, LAMBDA l : NameOf(l) = n))

\* three lines, two of one name around one of another: the two are folded
C12_Witness ==
    /\ Produced
    /\ Len(HeaderLinesOf(Sent)) = 3
    /\ DOMAIN Req.headers = {<<"A">>, <<"B">>}
    /\ Req.headers[<<"A">>] = <<"2", ",", " ", "1">>
    /\ Req.headers[<<"B">>] = <<>>

\* some header line of the connection has this name, letter for letter
HasHeader(name) ==
    LET lines == HeaderLinesOf(Sent)
    IN  \E k \in 1..Len(lines) : NameOf(lines[k]) = name

BothBodyHeaders == HasHeader(Content_Length) /\ HasHeader(Content_Type)

\* what framing left on the stream
AfterFraming == SubSeq(Sent, FramingTakes(Sent, conn[1].chunk) + 1, Len(Sent))

\* C13: a produced request has a body only if the connection has both a
\* Content-Length and a Content-Type header line; when either is missing the
\* body is None and the stream still holds every byte framing left on it.
C13_BodyOnlyWithBothHeaders ==
    Produced =>
        /\ Req.body # None => BothBodyHeaders
        /\ ~BothBodyHeaders =>
               /\ Req.body = None
               /\ stream[1].bytes = AfterFraming

\* a Content-Length alone, body bytes sent, some of them still on the stream:
\* no body
C13_Witness ==
    /\ Produced
    /\ HasHeader(Content_Length)
    /\ ~HasHeader(Content_Type)
    /\ AfterBlank(Sent) # <<>>
    /\ AfterFraming # <<>>
    /\ Req.body = None

\* the value of the header of this name (one line of that name is sent)
HeaderValue(name) ==
    Joined(SelectSeq(HeaderLinesOf(Sent), LAMBDA l : NameOf(l) = name))

\* the number a Content-Length text declares
DeclaredLength ==
    LET text == HeaderValue(Content_Length)
    IN  CHOOSE n \in 0..(Len(Sent) + Slack) : Decimal(n) = text

\* the bytes agree with the bytes sent after the blank line wherever both
\* have one
RawPrefix(bytes) ==
    LET after == AfterBlank(Sent)
    IN  \A i \in 1..Len(bytes) : i <= Len(after) => bytes[i] = after[i]

\* C14: with both headers, the Content-Type value fixes the body variant letter
\* for letter: application/json gives JSON, application/x-www-form-urlencoded
\* FormData, text/plain Text, any other non-empty value Binary with the raw
\* bytes, the empty value no body; Binary is produced for no other value.
C14_VariantByExactContentType ==
    (Produced /\ BothBodyHeaders) =>
        LET type == HeaderValue(Content_Type)
            named == {Application_json, Form_urlencoded, Text_plain}
            kind == IF Req.body = None THEN "None" ELSE Req.body[1].kind
        IN  /\ type = Application_json => kind = "JSON"
            /\ type = Form_urlencoded => kind = "FormData"
            /\ type = Text_plain => kind = "Text"
            /\ type = <<>> => kind = "None"
            /\ (type \notin named /\ type # <<>>) =>
                   /\ kind = "Binary"
                   /\ Len(Req.body[1].value) = DeclaredLength
                   /\ RawPrefix(Req.body[1].value)
            /\ kind = "Binary" => (type \notin named /\ type # <<>>)

\* Text/plain is not text/plain: the body is Binary and keeps the byte that
\* is no UTF-8
C14_Witness ==
    /\ Produced
    /\ BothBodyHeaders
    /\ HeaderValue(Content_Type) = <<"T", "e", "x", "t", "/", "p", "l", "a", "i", "n">>
    /\ Req.body = Some([kind |-> "Binary", value |-> <<"xFF", "h">>])

\* the Content-Length text is a number
NumericLength ==
    LET text == HeaderValue(Content_Length)
    IN  \E n \in 0..(Len(Sent) + Slack) : Decimal(n) = text

\* the connection at hand has a blank line, both body headers, this content
\* type, and after the blank line exactly the bytes its Content-Length declares
SendsWholeBody(type) ==
    /\ conn # None
    /\ TermAt(Sent) # 0
    /\ BothBodyHeaders
    /\ HeaderValue(Content_Type) = type
    /\ NumericLength
    /\ DeclaredLength = Len(AfterBlank(Sent))

\* the '&'-separated pieces of a form body, as texts
FormPieces(text) == {SubSeq(text, r[1], r[2]) : r \in Runs(text, "&")}

Malformed(text) == \E piece \in FormPieces(text) : ~HasChar(piece, "=")

\* the first '=' of a piece
EqualsAt(piece) == CHOOSE i \in 1..Len(piece) : piece[i] = "=" /\ \A j \in 1..(i - 1) : piece[j] # "="

\* C15 as stated: a form body with a piece without '=' (the empty body too)
\* fails that request only, with no crash; a form body whose pieces all have
\* '=' gives the mapping of each key to the text after its first '='.
C15_MalformedFormFailsRequestOnly ==
    SendsWholeBody(Form_urlencoded) =>
        IF Malformed(AfterBlank(Sent))
        THEN /\ pc # "panicked"
             /\ calls = <<>>
        ELSE /\ Produced
             /\ Req.body # None
             /\ Req.body[1].kind = "FormData"
             /\ DOMAIN Req.body[1].value =
                    {SubSeq(p, 1, EqualsAt(p) - 1) : p \in FormPieces(AfterBlank(Sent))}
             /\ \A k \in DOMAIN Req.body[1].value :
                    \E p \in FormPieces(AfterBlank(Sent)) :
                        /\ SubSeq(p, 1, EqualsAt(p) - 1) = k
                        /\ SubSeq(p, EqualsAt(p) + 1, Len(p)) = Req.body[1].value[k]

\* the request line: the first stripped, non-empty line of the header block,
\* the empty text when the block has none
RequestLineOf(bytes) ==
    LET lines == BlockLines(HeaderBlock(bytes))
    IN  IF lines = <<>> THEN <<>> ELSE lines[1]

Blank(c) == c \in {" ", "\t", "\r", "\n"}

\* where the tokens of a line start
TokenStarts(line) ==
    {i \in 1..Len(line) : ~Blank(line[i]) /\ (i = 1 \/ Blank(line[i - 1]))}

\* the first token of a stripped line
FirstToken(line) ==
    SubSeq(line, 1, CHOOSE n \in 0..Len(line) :
                        /\ \A i \in 1..n : ~Blank(line[i])
                        /\ n = Len(line) \/ Blank(line[n + 1]))

MethodTokens == {T_GET, T_POST, T_PUT, T_PATCH, T_DELETE}

\* the token that names a Method
TokenOf(method) ==
    CASE method = "GET" -> T_GET
      [] method = "POST" -> T_POST
      [] method = "PUT" -> T_PUT
      [] method = "PATCH" -> T_PATCH
      [] method = "DELETE" -> T_DELETE

BadRequestLine(line) ==
    \/ Cardinality(TokenStarts(line)) # 3
    \/ FirstToken(line) \notin MethodTokens

\* the connection at hand was read up to its blank line
Framed == conn # None /\ TermAt(Sent) # 0

\* C16: a request line that does not split on white space into exactly three
\* tokens, or whose first token is not GET, POST, PUT, PATCH or DELETE, fails
\* the parse: no request is produced and no handler is invoked; a request
\* that is produced bears the method its first token names.
C16_BadRequestLineFailsParse ==
    Framed =>
        /\ BadRequestLine(RequestLineOf(Sent)) =>
               /\ request = None
               /\ calls = <<>>
               /\ panic # None
        /\ request # None => TokenOf(Req.method) = FirstToken(RequestLineOf(Sent))

\* HEAD /user/42 HTTP/1.1 : three tokens, a method outside the set; the parse
\* fails over the method
C16_Witness ==
    /\ Framed
    /\ Cardinality(TokenStarts(RequestLineOf(Sent))) = 3
    /\ FirstToken(RequestLineOf(Sent)) = T_HEAD
    /\ request = None
    /\ panic = Some("Invalid Method")

\* a content type outside the three named ones: the body is the bytes as read
Other_type == <<"a", "/", "b">>

\* the connection at hand declares a Binary body and sends at least the bytes
\* it declares
SendsEnough ==
    /\ Framed
    /\ BothBodyHeaders
    /\ HeaderValue(Content_Type) = Other_type
    /\ NumericLength
    /\ DeclaredLength <= Len(AfterBlank(Sent))

\* how many bytes framing read past the blank line
LeftOverLength == FramingTakes(Sent, conn[1].chunk) - HeaderEnd(Sent)

\* C19 as stated: whatever the declared length and the leftover of framing,
\* the leftover being longer than the declared length included, the body is
\* exactly the first Content-Length bytes after the blank line and the length
\* subtraction does not fail.
C19_BodyIsDeclaredLengthBytes ==
    SendsEnough =>
        /\ panic = None
        /\ Produced
        /\ Req.body = Some([kind |-> "Binary",
                            value |-> SubSeq(AfterBlank(Sent), 1, DeclaredLength)])

\* the same, for a leftover no longer than the declared length; the stream
\* then holds the bytes after the body
C19_HoldsWhenLeftOverFits ==
    (SendsEnough /\ LeftOverLength <= DeclaredLength) =>
        /\ C19_BodyIsDeclaredLengthBytes
        /\ stream[1].bytes =
               SubSeq(AfterBlank(Sent), DeclaredLength + 1, Len(AfterBlank(Sent)))

\* the connection at hand declares a body of a type that needs no decoding
\* and ends before the bytes it declares
SendsTooFew ==
    /\ Framed
    /\ BothBodyHeaders
    /\ HeaderValue(Content_Type) \in {Other_type, Text_plain, Application_json}
    /\ NumericLength
    /\ DeclaredLength > Len(AfterBlank(Sent))

\* C20 as stated: when the stream ends before the declared Content-Length
\* bytes have come, the request fails: no request is produced and no handler
\* is invoked.
C20_ShortBodyFailsRequest ==
    SendsTooFew =>
        /\ request = None
        /\ calls = <<>>

(***************************************************************************)
(* Vocabulary of the properties about responses, stated on the builder     *)
(* calls made.                                                             *)
(***************************************************************************)

\* the last status call, and the last html or json call, 0 when there is none
LastStatus ==
    LET at == {i \in 1..Len(built) : built[i][1] = "status"}
    IN  IF at = {} THEN 0 ELSE CHOOSE i \in at : \A j \in at : i >= j

LastContent ==
    LET at == {i \in 1..Len(built) : built[i][1] \in {"html", "json"}}
    IN  IF at = {} THEN 0 ELSE CHOOSE i \in at : \A j \in at : i >= j

\* the status code as it is printed
StatusText ==
    IF LastStatus = 0 THEN <<"2", "0", "0">>
    ELSE CASE built[LastStatus][2] = 0 - 1 -> <<"-", "1">>
           [] built[LastStatus][2] = 0 -> <<"0">>
           [] built[LastStatus][2] = 200 -> <<"2", "0", "0">>
           [] built[LastStatus][2] = 201 -> <<"2", "0", "1">>
           [] built[LastStatus][2] = 404 -> <<"4", "0", "4">>
           [] built[LastStatus][2] = 500 -> <<"5", "0", "0">>

\* a length below one hundred as it is printed
LengthText(n) ==
    LET digits == <<"0", "1", "2", "3", "4", "5", "6", "7", "8", "9">>
    IN  IF n <= 9 THEN <<digits[n + 1]>>
        ELSE <<digits[(n \div 10) + 1], digits[(n % 10) + 1]>>

TypeText ==
    IF built[LastContent][1] = "html"
    THEN <<"t", "e", "x", "t", "/", "h", "t", "m", "l">>
    ELSE <<"a", "p", "p", "l", "i", "c", "a", "t", "i", "o", "n", "/", "j", "s", "o", "n">>

HTTP_1_1 == <<"H", "T", "T", "P", "/", "1", ".", "1", " ">>
EOL == <<"\r", "\n">>

\* the wire form of the response the builder calls describe
Wire ==
    IF LastContent = 0
    THEN HTTP_1_1 \o StatusText \o EOL \o EOL
    ELSE HTTP_1_1 \o StatusText \o EOL
             \o <<"C", "o", "n", "t", "e", "n", "t", "-", "L", "e", "n", "g", "t", "h", ":", " ">>
             \o LengthText(Len(built[LastContent][2])) \o EOL
             \o <<"C", "o", "n", "t", "e", "n", "t", "-", "T", "y", "p", "e", ":", " ">>
             \o TypeText \o EOL \o EOL
             \o built[LastContent][2]

\* C17: what send writes is the status line, then, when html or json set the
\* content type and length, the Content-Length line, the Content-Type line, a
\* blank line and the body, and otherwise a blank line and nothing more;
\* status(201).json("{}") is written as
\* HTTP/1.1 201 CRLF Content-Length: 2 CRLF Content-Type: application/json
\* CRLF CRLF {}.
C17_SendWritesWireFormat ==
    (resp # None /\ written # <<>>) =>
        /\ Len(written) = 1
        /\ written[1] = Wire
        /\ built = <<<<"status", 201>>, <<"json", X_json>>>> =>
               written[1] =
                   <<"H", "T", "T", "P", "/", "1", ".", "1", " ", "2", "0", "1", "\r", "\n",
                     "C", "o", "n", "t", "e", "n", "t", "-", "L", "e", "n", "g", "t", "h",
                     ":", " ", "2", "\r", "\n",
                     "C", "o", "n", "t", "e", "n", "t", "-", "T", "y", "p", "e", ":", " ",
                     "a", "p", "p", "l", "i", "c", "a", "t", "i", "o", "n", "/",
                     "j", "s", "o", "n", "\r", "\n", "\r", "\n", "{", "}">>

\* status(201).json("{}") has been sent
C17_Witness ==
    /\ resp # None
    /\ built = <<<<"status", 201>>, <<"json", X_json>>>>
    /\ Len(written) = 1
    /\ Len(written[1]) = 69
    /\ SubSeq(written[1], 66, 69) = <<"\r", "\n", "{", "}">>

(***************************************************************************)
(* Vocabulary of the properties about framing.                             *)
(***************************************************************************)

\* how many bytes the first k reads returned
RECURSIVE ReadUpTo(_, _)
ReadUpTo(reads, k) == IF k = 0 THEN 0 ELSE ReadUpTo(reads, k - 1) + reads[k]

\* some read ended inside the first terminator of the bytes sent
SplitInTerminator ==
    \E k \in 1..Len(frame[1].reads) :
        /\ ReadUpTo(frame[1].reads, k) >= TermAt(Sent)
        /\ ReadUpTo(frame[1].reads, k) < HeaderEnd(Sent)

\* C21: however the bytes are split into reads, read_header returns when and
\* only when the first terminator of the bytes sent is in its buffer; the
\* lines it returns are those of the block that ends with that terminator,
\* the leftover is the bytes read after it, block and leftover together are
\* all the bytes read, and no byte read is lost or left unaccounted.
C21_FramingIndependentOfSplits ==
    frame # None =>
        LET buf == frame[1].buf
            reads == frame[1].reads
        IN  /\ Len(buf) = ReadUpTo(reads, Len(reads))
            /\ buf \o stream[1].bytes = Sent
            /\ frame[1].result = None => TermAt(buf) = 0
            /\ pc = "panicked" => TermAt(Sent) = 0
            /\ frame[1].result # None =>
                   LET r == frame[1].result[1]
                   IN  /\ TermAt(Sent) # 0
                       /\ r.vec = BlockLines(HeaderBlock(Sent))
                       /\ r.left_over = SubSeq(buf, HeaderEnd(Sent) + 1, Len(buf))
                       /\ HeaderBlock(Sent) \o r.left_over = buf
                       /\ Len(r.left_over) < reads[Len(reads)]
                       /\ r.unread = stream[1].bytes

\* a read ended inside the terminator, a later read brought its end and one
\* byte more: the line before it is returned, with that byte as leftover
C21_Witness ==
    /\ frame # None
    /\ frame[1].result # None
    /\ SplitInTerminator
    /\ frame[1].result[1].vec = <<<<"a">>>>
    /\ frame[1].result[1].left_over = <<"a">>

(***************************************************************************)
(* Vocabulary of the properties about registration.                        *)
(***************************************************************************)

\* the registration a step makes: the last of the history after it
Registers == registered' # registered
Made == registered'[Len(registered')]

\* the segment a part of a path stands for
SegmentFor(part) ==
    IF part[1] = ":"
    THEN [kind |-> "Dynamic", s |-> SubSeq(part, 2, Len(part))]
    ELSE [kind |-> "Static", s |-> part]

\* the segments of the non-empty '/'-separated parts of a text
PartSegments(text) == [k \in 1..SegmentCount(text) |-> SegmentFor(SegmentAt(text, k))]

\* the step appends one entry to the dynamic list, with these segments, and
\* leaves the static table as it was
AppendsDynamic(segments) ==
    /\ static_methods' = static_methods
    /\ Len(dynamic_methods') = Len(dynamic_methods) + 1
    /\ SubSeq(dynamic_methods', 1, Len(dynamic_methods)) = dynamic_methods
    /\ dynamic_methods'[Len(dynamic_methods')] =
           [method |-> Made.method, segments |-> segments, function |-> Made.function]

\* the step stores one entry in the static table, under the method and the
\* path as given, and leaves every other entry and the dynamic list as they
\* were
StoresStatic ==
    /\ dynamic_methods' = dynamic_methods
    /\ DOMAIN static_methods' = DOMAIN static_methods \cup {<<Made.method, Made.path>>}
    /\ static_methods'[<<Made.method, Made.path>>] = Made.function
    /\ \A key \in DOMAIN static_methods :
           key # <<Made.method, Made.path>> => static_methods'[key] = static_methods[key]

\* C22 as stated: a registration writes one entry in one table; a path with a
\* ':' appends a dynamic entry whose segments are the non-empty '/'-separated
\* parts of the path, Dynamic for a part that starts with ':' and Static for
\* any other; a path without ':' is stored in the static table and the
\* dynamic list stays.
C22_SegmentsOfThePathAsGiven ==
    [][Registers =>
          IF HasChar(Made.path, ":")
          THEN AppendsDynamic(PartSegments(Made.path))
          ELSE StoresStatic]_vars

\* C22: the same, the segments of a dynamic entry being the parts of the path
\* without the white space around it, and a static entry being stored under
\* the path as given, in the place of an entry of the same method and path.
C22_RegistrationWritesOneEntry ==
    [][Registers =>
          IF HasChar(Made.path, ":")
          THEN AppendsDynamic(PartSegments(Strip(Made.path)))
          ELSE StoresStatic]_vars

\* three registrations: a path with a ':' inside a part is a dynamic entry of
\* Static segments only, a path in white space is a dynamic entry of its
\* stripped parts, and a path without ':' is in the static table
C22_Witness ==
    /\ Len(registered) = 3
    /\ Len(dynamic_methods) = 2
    /\ dynamic_methods[1].segments = <<[kind |-> "Static", s |-> <<"a", ":", "b">>],
                                       [kind |-> "Static", s |-> <<"c">>]>>
    /\ dynamic_methods[2].segments = <<[kind |-> "Static", s |-> <<"a">>],
                                       [kind |-> "Dynamic", s |-> <<"x">>]>>
    /\ registered[2].path = P_spaced
    /\ DOMAIN static_methods = {<<"GET", P_root>>}

\* the fields of the Response are those the builder calls made describe:
\* content type and content length are set together, the length is that of
\* the body, type and body are those of the last html or json call, and the
\* status is the code of the last status call, 200 when there is none
FieldsFollowCalls ==
    resp # None =>
        LET r == resp[1]
        IN  /\ (r.content_type = None) <=> (r.content_length = None)
            /\ r.content_length # None => r.content_length[1] = Len(r.body)
            /\ IF LastContent = 0
               THEN /\ r.content_type = None
                    /\ r.body = <<>>
               ELSE /\ r.content_type = <<TypeText>>
                    /\ r.body = built[LastContent][2]
            /\ r.status = IF LastStatus = 0 THEN 200 ELSE built[LastStatus][2]

\* the step is a call of status
CallsStatus ==
    /\ Len(built') = Len(built) + 1
    /\ built'[Len(built')][1] = "status"

====
